---- MODULE Spec2Model ----
(***************************************************************************)
(* Model of the batch transcription orchestrators of transcriber_Wiz:      *)
(*   - transcriber.py  transcribe_in_batches  (thread pool, "transcriber") *)
(*   - app.py          transcribe_in_batches  (sequential loop, "app")     *)
(*   - app.py          download_and_transcribe / save_transcript           *)
(*   - utils.py        sanitize_filename, get_episode_name                 *)
(*   - file_manager.py save_transcript (the names of the files it writes)  *)
(*   - logger.py       Logger.log called from several threads              *)
(*   - app2.py         handle_transcribe and the session state it keeps    *)
(* Spec follows one run of either orchestrator step by step; SpecPool and  *)
(* SpecHang follow the thread pool of transcriber.py on longer plans, with *)
(* each process_batch call as one step; SpecRuns and SpecOneRun follow the *)
(* segment files of two runs and of one run; SpecLog follows Logger.log;   *)
(* SpecSan and SpecName apply the two naming functions to their inputs;    *)
(* SpecHandle follows any number of handle_transcribe runs of app2.py.     *)
(* Times are counted in ticks, TicksPerSecond ticks to the second, so that *)
(* a probed duration that is not a whole number of seconds can be stated.  *)
(* A text is a sequence of tokens; the token " " is one space character.   *)
(***************************************************************************)
EXTENDS Integers, Sequences, FiniteSets, TLC

\* ---------------------------------------------------------------- bounds
TicksPerSecond == 2
MaxSegmentsApp == 3
MaxSegmentsTr == 2
MaxPieces == 3

\* ------------------------------------------------------ program constants
SmallSizeMB == 9
SmallDurationSec == 540
BatchDurationTr == 540
MaxSizeMBApp == 30
BatchDurationApp == 1800
PoolSize == 4

\* Python values that are not transcription dicts. Every value is a record,
\* so that any two of them can be compared.
None == [none |-> TRUE]
Pending == [pending |-> TRUE]

VARIABLES
  variant,      \* "app" (app.py) or "transcriber" (transcriber.py)
  exists,       \* os.path.exists(file_path)
  sizeMB,       \* os.path.getsize(file_path) / (1024 * 1024)
  probe,        \* ffprobe outcome: the duration in ticks, or -1 when it raises
  pc,           \* position of the thread that runs transcribe_in_batches
  cur,          \* app.py: batch_num of the loop iteration in progress
  files,        \* batch_output files on disk, by batch_num
  everCut,      \* batch_nums for which the ffmpeg cut command was run
  wpc,          \* transcriber.py: position of each process_batch call
  snap,         \* transcriber.py: self.log_text as read by a worker's log call
  resp,         \* value returned by transcribe_audio for each segment
  results,      \* transcriber.py: the results list, in completion order
  collected,    \* transcriber.py: batch_nums in the order as_completed gave them
  full,         \* full_transcription
  log_text,     \* the log, one entry per message
  direct,       \* value returned by transcribe_audio on the whole file
  ret,          \* value returned by transcribe_in_batches
  saved,        \* save_transcript wrote <name>.txt and <name>_full.json
  sanIn,        \* sanitize_filename: the argument
  sanOut,       \* sanitize_filename(sanIn)
  sanTwice,     \* sanitize_filename(sanitize_filename(sanIn))
  sanPc,
  url,          \* save_transcript: the url argument
  title,        \* save_transcript: the title argument (None or a string)
  episode_name, \* save_transcript: the value of get_episode_name(url, title)
  written,      \* save_transcript: names of the files it opened for writing
  namePc,
  runPath,      \* two runs: file_path of each transcribe_in_batches call
  runPlan,      \* two runs: total_batches of each call
  runPc,        \* two runs: position of each segment's cut-transcribe-remove
  disk,         \* two runs: the segment files on disk, by name, with the
                \* run and segment whose cut wrote the content
  sent,         \* two runs: whose content each segment's upload_file read
  session_log_text, \* logger.py: st.session_state.log_text
  calls,        \* logger.py: Logger.log calls each thread has completed
  hpc,          \* app2.py: position of handle_transcribe
  audio_file,             \* app2.py: st.session_state.audio_file
  transcription_result,   \* app2.py: st.session_state.transcription_result
  transcription_completed,\* app2.py: st.session_state.transcription_completed
  download_error,         \* app2.py: st.session_state.download_error
  transcription_error,    \* app2.py: st.session_state.transcription_error
  audio_duration,         \* app2.py: st.session_state.audio_duration
  metadata,               \* app2.py: st.session_state.metadata
  logs                    \* app2.py: st.session_state.logs, message by message

vars == <<variant, exists, sizeMB, probe, pc, cur, files, everCut, wpc, snap,
          resp, results, collected, full, log_text, direct, ret, saved,
          sanIn, sanOut, sanTwice, sanPc,
          url, title, episode_name, written, namePc,
          runPath, runPlan, runPc, disk, sent, session_log_text, calls,
          hpc, audio_file, transcription_result, transcription_completed,
          download_error, transcription_error, audio_duration, metadata, logs>>

orchVars == <<variant, exists, sizeMB, probe, pc, cur, files, everCut, wpc,
              snap, resp, results, collected, full, log_text, direct, ret,
              saved>>

sanVars == <<sanIn, sanOut, sanTwice, sanPc>>

nameVars == <<url, title, episode_name, written, namePc>>

\* What the orchestrators, the sanitizer runs and save_transcript leave alone.
runsVars == <<runPath, runPlan, runPc, disk, sent>>

logVars == <<session_log_text, calls>>

handleVars == <<hpc, audio_file, transcription_result, transcription_completed,
                download_error, transcription_error, audio_duration, metadata,
                logs>>

nonOrchVars == <<sanVars, nameVars, runsVars, logVars, handleVars>>
nonSanVars == <<orchVars, nameVars, runsVars, logVars, handleVars>>
nonHandleVars == <<orchVars, sanVars, nameVars, runsVars, logVars>>

\* ------------------------------------------------------------- the plan
Min(a, b) == IF a <= b THEN a ELSE b

\* int(duration): truncation of the probed float to whole seconds
IntSeconds(d) == d \div TicksPerSecond

batch_duration(v) == IF v = "app" THEN BatchDurationApp ELSE BatchDurationTr

\* total_batches = (int(duration) + int(batch_duration) - 1) // int(batch_duration)
total_batches(v, d) ==
  (IntSeconds(d) + batch_duration(v) - 1) \div batch_duration(v)

\* range(0, int(duration), int(batch_duration)), as the set of its indices:
\* batch_num i (from 1) has start (i - 1) * batch_duration
BatchNums(v, d) ==
  {i \in 1..(IntSeconds(d) \div batch_duration(v) + 1) :
     (i - 1) * batch_duration(v) < IntSeconds(d)}

StartOf(v, i) == (i - 1) * batch_duration(v)

\* What "ffmpeg -ss start -t batch_duration -acodec copy" holds, in ticks:
\* the requested length, truncated to what is left of the source.
CutLength(v, d, i) ==
  Min(batch_duration(v) * TicksPerSecond, d - StartOf(v, i) * TicksPerSecond)

\* ------------------------------------------------- the transcription service
\* What fal_client does for one uploaded file: upload_file raises, subscribe
\* raises, or subscribe returns a value.
RaiseUpload == [raises |-> "upload_file"]
RaiseSubscribe == [raises |-> "subscribe"]

Chunk(s, e, t) == [start |-> s, end |-> e, text |-> t]

\* The values subscribe may return for an audio file of len ticks: None, a
\* dict without 'text', a dict whose chunk has no 'start'/'end', a dict without
\* 'chunks', and well-formed dicts of one chunk {0, 5 s} and of two chunks
\* that end with the file.
Returned(len) ==
  { None,
    [chunks |-> <<Chunk(0, 5 * TicksPerSecond, "hi")>>],
    [text |-> <<"yo">>, chunks |-> <<[text |-> "yo"]>>],
    [text |-> <<"yo">>],
    [text |-> <<"hi">>, chunks |-> <<Chunk(0, 5 * TicksPerSecond, "hi")>>],
    [text |-> <<"hi yo">>,
     chunks |-> <<Chunk(0, 1, "hi"), Chunk(1, len, "yo")>>] }

IsDict(r) == "none" \notin DOMAIN r /\ "pending" \notin DOMAIN r
                /\ "raises" \notin DOMAIN r

\* Python truth of a value returned by transcribe_audio or
\* transcribe_in_batches: None is false, a dict with a key is true.
Truthy(r) == IsDict(r)

\* ------------------------------------------------------------ the merge
\* MergeChunks with the offset added to 'start' only.
RECURSIVE MergeChunksStartOnly(_, _, _)
MergeChunksStartOnly(acc, chunks, off) ==
  IF chunks = <<>> THEN [chunks |-> acc, raised |-> FALSE]
  ELSE LET c == Head(chunks)
       IN IF "start" \notin DOMAIN c \/ "end" \notin DOMAIN c
          THEN [chunks |-> acc, raised |-> TRUE]
          ELSE MergeChunksStartOnly(
                 Append(acc, [c EXCEPT !.start = @ + off]), Tail(chunks), off)

\* for chunk in batch_result["chunks"]: chunk['start'] += start;
\* chunk['end'] += start; full_transcription["chunks"].append(chunk).
\* A chunk without the key raises KeyError and ends the loop.
RECURSIVE MergeChunks(_, _, _)
MergeChunks(acc, chunks, off) ==
  IF chunks = <<>> THEN [chunks |-> acc, raised |-> FALSE]
  ELSE LET c == Head(chunks)
       IN IF "start" \notin DOMAIN c \/ "end" \notin DOMAIN c
          THEN [chunks |-> acc, raised |-> TRUE]
          ELSE MergeChunks(
                 Append(acc, [c EXCEPT !.start = @ + off, !.end = @ + off]),
                 Tail(chunks), off)

\* full_transcription["text"] += batch_result["text"] + " "
AddText(text, t) == text \o t \o <<" ">>

\* The body of "if batch_result:" for one segment: the text, then the chunks.
\* start is in seconds. raised: a KeyError left the body.
MergeResult(f, start, r) ==
  IF "text" \notin DOMAIN r THEN [full |-> f, raised |-> TRUE]
  ELSE LET t == AddText(f.text, r.text)
       IN IF "chunks" \notin DOMAIN r
          THEN [full |-> [text |-> t, chunks |-> f.chunks], raised |-> FALSE]
          ELSE LET m == MergeChunks(f.chunks, r.chunks, start * TicksPerSecond)
               IN [full |-> [text |-> t, chunks |-> m.chunks],
                   raised |-> m.raised]

\* results.sort(key=lambda x: x[0]); an entry is <<start, batch_result>>
RECURSIVE Insert(_, _)
Insert(x, s) ==
  IF s = <<>> THEN <<x>>
  ELSE IF x[1] < Head(s)[1] THEN <<x>> \o s
       ELSE <<Head(s)>> \o Insert(x, Tail(s))

\* SortByStart left out: the results stay in completion order.
Unsorted(s) == s

RECURSIVE SortByStart(_)
SortByStart(s) ==
  IF s = <<>> THEN <<>>
  ELSE LET n == Len(s)
       IN Insert(s[n], SortByStart(SubSeq(s, 1, n - 1)))

\* for start, batch_result in results: if batch_result: <merge>
RECURSIVE MergeAll(_, _)
MergeAll(f, rs) ==
  IF rs = <<>> THEN [full |-> f, raised |-> FALSE]
  ELSE LET m == MergeResult(f, Head(rs)[1], Head(rs)[2])
       IN IF m.raised THEN m ELSE MergeAll(m.full, Tail(rs))

EmptyTranscription == [text |-> <<>>, chunks |-> <<>>]

\* --------------------------------------------------------- transcribe_audio
Outcomes(len) == {RaiseUpload, RaiseSubscribe} \cup Returned(len)

\* transcribe_audio(file_path) for the file of segment n (0: the whole file):
\* the value it returns and the messages it logs. The queue-update callback
\* is taken to deliver no message.
transcribe_audio(n, present, outcome) ==
  IF ~present
  THEN [value |-> None, logs |-> <<<<"Error: Input file does not exist", n>>>>]
  ELSE IF outcome = RaiseUpload
  THEN [value |-> None, logs |-> <<<<"Transcription error", n>>>>]
  ELSE IF outcome = RaiseSubscribe
  THEN [value |-> None,
        logs |-> <<<<"Uploaded file URL", n>>, <<"Transcription error", n>>>>]
  ELSE [value |-> outcome, logs |-> <<<<"Uploaded file URL", n>>>>]

\* ------------------------------------------------------------------ inputs
Max(a, b) == IF a >= b THEN a ELSE b

MaxSegments(v) == IF v = "app" THEN MaxSegmentsApp ELSE MaxSegmentsTr

\* Probed durations, in ticks: around every multiple of the segment length
\* half a second less, the multiple, half a second more, one second more.
Durations(v) ==
  {d \in {k * batch_duration(v) * TicksPerSecond + j :
             k \in 0..MaxSegments(v), j \in {-1, 0, 1, TicksPerSecond}} :
      d >= 0 /\ Cardinality(BatchNums(v, d)) <= MaxSegments(v)}

Sizes(v) == IF v = "app" THEN {MaxSizeMBApp, MaxSizeMBApp + 1}
            ELSE {SmallSizeMB, SmallSizeMB + 1}

SanIdle ==
  /\ sanIn = <<>>
  /\ sanOut = <<>>
  /\ sanTwice = <<>>
  /\ sanPc = "idle"

NameIdle ==
  /\ url = <<>>
  /\ title = None
  /\ episode_name = <<>>
  /\ written = {}
  /\ namePc = "idle"

RunsIdle ==
  /\ runPath = <<>>
  /\ runPlan = <<>>
  /\ runPc = <<>>
  /\ disk = {}
  /\ sent = <<>>

LogIdle ==
  /\ session_log_text = <<>>
  /\ calls = <<>>

\* app2.py initialize_session_state: the defaults of the session fields.
initialize_session_state ==
  /\ audio_file = None
  /\ transcription_result = None
  /\ metadata = None
  /\ download_error = ""
  /\ transcription_error = ""
  /\ logs = <<>>
  /\ transcription_completed = FALSE
  /\ audio_duration = None

HandleIdle ==
  /\ initialize_session_state
  /\ hpc = "idle"

Init ==
  /\ variant \in {"app", "transcriber"}
  /\ exists \in BOOLEAN
  /\ sizeMB \in Sizes(variant)
  /\ probe \in {-1} \cup Durations(variant)
  /\ pc = "start"
  /\ cur = 0
  /\ files = {}
  /\ everCut = {}
  /\ wpc = <<>>
  /\ snap = <<>>
  /\ resp = <<>>
  /\ results = <<>>
  /\ collected = <<>>
  /\ full = EmptyTranscription
  /\ log_text = <<>>
  /\ direct = Pending
  /\ ret = Pending
  /\ saved = FALSE
  /\ SanIdle
  /\ NameIdle
  /\ RunsIdle
  /\ LogIdle
  /\ HandleIdle

\* The length of the whole file as the service sees it.
WholeLength == Max(probe, 1)

\* ------------------------------------------------------------------ app.py
\* transcribe_in_batches up to the choice of the path.
AppBegin ==
  /\ variant = "app"
  /\ pc = "start"
  /\ IF ~exists
     THEN /\ log_text' = Append(log_text, <<"Error: Input file does not exist", 0>>)
          /\ ret' = None
          /\ pc' = "returned"
     ELSE IF sizeMB <= MaxSizeMBApp
     THEN /\ pc' = "whole"
          /\ UNCHANGED <<log_text, ret>>
     ELSE IF probe = -1
     THEN /\ log_text' = Append(log_text, <<"Batch processing error", 0>>)
          /\ ret' = None
          /\ pc' = "returned"
     ELSE /\ log_text' = Append(log_text, <<"Processing batches", total_batches(variant, probe)>>)
          /\ pc' = "loop"
          /\ UNCHANGED ret
  /\ cur' = 1
  /\ full' = EmptyTranscription
  /\ UNCHANGED <<variant, exists, sizeMB, probe, files, everCut, wpc, snap,
                 resp, results, collected, direct, saved>>
  /\ UNCHANGED nonOrchVars

\* return transcribe_audio(file_path)
AppWhole ==
  /\ variant = "app"
  /\ pc = "whole"
  /\ \E o \in Outcomes(WholeLength) :
       LET t == transcribe_audio(0, exists, o)
       IN /\ direct' = t.value
          /\ ret' = t.value
          /\ log_text' = log_text \o t.logs
  /\ pc' = "returned"
  /\ UNCHANGED <<variant, exists, sizeMB, probe, cur, files, everCut, wpc,
                 snap, resp, results, collected, full, saved>>
  /\ UNCHANGED nonOrchVars

\* One loop iteration up to "if os.path.exists(batch_output)": the cut.
AppCut ==
  /\ variant = "app"
  /\ pc = "loop"
  /\ cur \in BatchNums(variant, probe)
  /\ everCut' = everCut \cup {cur}
  /\ \E created \in BOOLEAN :
       IF created
       THEN /\ files' = files \cup {cur}
            /\ log_text' = Append(log_text, <<"Processing batch", cur>>)
            /\ pc' = "transcribe"
            /\ UNCHANGED cur
       ELSE /\ log_text' = log_text \o <<<<"Processing batch", cur>>,
                                          <<"Error: Batch file was not created", cur>>>>
            /\ cur' = cur + 1
            /\ UNCHANGED <<files, pc>>
  /\ UNCHANGED <<variant, exists, sizeMB, probe, wpc, snap, resp, results,
                 collected, full, direct, ret, saved>>
  /\ UNCHANGED nonOrchVars

\* The rest of the iteration: transcribe, merge, remove, inside try/except.
AppTranscribe ==
  /\ variant = "app"
  /\ pc = "transcribe"
  /\ \E o \in Outcomes(CutLength(variant, probe, cur)) :
       LET t == transcribe_audio(cur, cur \in files, o)
           m == IF Truthy(t.value)
                THEN MergeResult(full, StartOf(variant, cur), t.value)
                ELSE [full |-> full, raised |-> FALSE]
       IN /\ resp' = (cur :> t.value) @@ resp
          /\ full' = m.full
          /\ IF m.raised
             THEN /\ log_text' = log_text \o t.logs
                                    \o <<<<"Error processing batch", cur>>>>
                  /\ UNCHANGED files
             ELSE /\ log_text' = log_text \o t.logs
                                    \o <<<<"Batch completed", cur>>>>
                  /\ files' = files \ {cur}
  /\ cur' = cur + 1
  /\ pc' = "loop"
  /\ UNCHANGED <<variant, exists, sizeMB, probe, everCut, wpc, snap, results,
                 collected, direct, ret, saved>>
  /\ UNCHANGED nonOrchVars

\* After the loop: the two closing log lines (the average divides by
\* total_batches) and the return.
AppFinish ==
  /\ variant = "app"
  /\ pc = "loop"
  /\ cur \notin BatchNums(variant, probe)
  /\ IF total_batches(variant, probe) = 0
     THEN /\ log_text' = log_text \o <<<<"Total batch processing time", 0>>,
                                        <<"Batch processing error", 0>>>>
          /\ ret' = None
     ELSE /\ log_text' = log_text \o <<<<"Total batch processing time", 0>>,
                                        <<"Average time per batch", 0>>>>
          /\ ret' = full
  /\ pc' = "returned"
  /\ UNCHANGED <<variant, exists, sizeMB, probe, cur, files, everCut, wpc,
                 snap, resp, results, collected, full, direct, saved>>
  /\ UNCHANGED nonOrchVars

\* save_transcript writes the two files when "result and 'text' in result".
save_transcript(result) == Truthy(result) /\ "text" \in DOMAIN result

\* download_and_transcribe after transcribe_in_batches returned:
\* "if result: save_transcript(result, ...)".
AppSave ==
  /\ variant = "app"
  /\ pc = "returned"
  /\ saved' = (Truthy(ret) /\ save_transcript(ret))
  /\ pc' = "done"
  /\ UNCHANGED <<variant, exists, sizeMB, probe, cur, files, everCut, wpc,
                 snap, resp, results, collected, full, log_text, direct, ret>>
  /\ UNCHANGED nonOrchVars

NextApp == AppBegin \/ AppWhole \/ AppCut \/ AppTranscribe \/ AppFinish \/ AppSave

\* ---------------------------------------------------------- transcriber.py
\* IsSmallFile with "duration < 9 * 60".
IsSmallFileStrict(size, d) ==
  size <= SmallSizeMB /\ d < SmallDurationSec * TicksPerSecond

\* "file_size_mb <= 9 and duration <= 9 * 60"
IsSmallFile(size, d) ==
  size <= SmallSizeMB /\ d <= SmallDurationSec * TicksPerSecond

OneWorkerPerSegment(n) == n

\* max_workers = min(4, total_batches)
max_workers(n) == Min(PoolSize, n)

\* transcribe_in_batches up to the submission of the futures.
TrBegin ==
  /\ variant = "transcriber"
  /\ pc = "start"
  /\ IF ~exists
     THEN /\ log_text' = Append(log_text, <<"Error: Input file does not exist", 0>>)
          /\ ret' = None
          /\ pc' = "returned"
          /\ UNCHANGED <<wpc, snap, resp>>
     ELSE IF probe = -1
     THEN /\ log_text' = Append(log_text, <<"Batch processing error", 0>>)
          /\ ret' = None
          /\ pc' = "returned"
          /\ UNCHANGED <<wpc, snap, resp>>
     ELSE IF IsSmallFile(sizeMB, probe)
     THEN /\ pc' = "whole"
          /\ UNCHANGED <<log_text, ret, wpc, snap, resp>>
     ELSE IF max_workers(total_batches(variant, probe)) <= 0
     THEN \* ThreadPoolExecutor(max_workers=0) raises ValueError
          /\ log_text' = log_text \o <<<<"Processing batches", 0>>,
                                        <<"Batch processing error", 0>>>>
          /\ ret' = None
          /\ pc' = "returned"
          /\ UNCHANGED <<wpc, snap, resp>>
     ELSE /\ log_text' = Append(log_text, <<"Processing batches", total_batches(variant, probe)>>)
          /\ wpc' = [i \in BatchNums(variant, probe) |-> "queued"]
          /\ snap' = [i \in BatchNums(variant, probe) |-> <<>>]
          /\ resp' = [i \in BatchNums(variant, probe) |-> Pending]
          /\ pc' = "collect"
          /\ UNCHANGED ret
  /\ results' = <<>>
  /\ full' = EmptyTranscription
  /\ UNCHANGED <<variant, exists, sizeMB, probe, cur, files, everCut,
                 collected, direct, saved>>
  /\ UNCHANGED nonOrchVars

\* return transcribe_audio(file_path)
TrWhole ==
  /\ variant = "transcriber"
  /\ pc = "whole"
  /\ \E o \in Outcomes(WholeLength) :
       LET t == transcribe_audio(0, exists, o)
       IN /\ direct' = t.value
          /\ ret' = t.value
          /\ log_text' = log_text \o t.logs
  /\ pc' = "returned"
  /\ UNCHANGED <<variant, exists, sizeMB, probe, cur, files, everCut, wpc,
                 snap, resp, results, collected, full, saved>>
  /\ UNCHANGED nonOrchVars

Running == {i \in DOMAIN wpc : wpc[i] \notin {"queued", "done"}}

\* Logger.log is "self.log_text += msg": a read of log_text, then a write of
\* the value read with msg appended. LogRead is the read, LogWrite the write.
LogRead(i) == snap' = [snap EXCEPT ![i] = log_text]

LogWrite(i, kind) == log_text' = Append(snap[i], <<kind, i>>)

\* A pool thread takes the next process_batch call from the queue.
WorkerStart(i) ==
  /\ pc = "collect"
  /\ wpc[i] = "queued"
  /\ \A j \in DOMAIN wpc : j < i => wpc[j] # "queued"
  /\ Cardinality(Running) < max_workers(total_batches(variant, probe))
  /\ wpc' = [wpc EXCEPT ![i] = "begin"]
  /\ UNCHANGED <<variant, exists, sizeMB, probe, pc, cur, files, everCut,
                 snap, resp, results, collected, full, log_text, direct, ret,
                 saved>>
  /\ UNCHANGED nonOrchVars

\* log.log("Processing batch ..."): the read
WorkerLogProcessing(i) ==
  /\ wpc[i] = "begin"
  /\ LogRead(i)
  /\ wpc' = [wpc EXCEPT ![i] = "logProcessing"]
  /\ UNCHANGED <<variant, exists, sizeMB, probe, pc, cur, files, everCut,
                 resp, results, collected, full, log_text, direct, ret, saved>>
  /\ UNCHANGED nonOrchVars

\* ... the write, then subprocess.call(cut_cmd) and os.path.exists
WorkerCut(i) ==
  /\ wpc[i] = "logProcessing"
  /\ LogWrite(i, "Processing batch")
  /\ everCut' = everCut \cup {i}
  /\ \E created \in BOOLEAN :
       IF created
       THEN /\ files' = files \cup {i}
            /\ wpc' = [wpc EXCEPT ![i] = "created"]
       ELSE /\ UNCHANGED files
            /\ wpc' = [wpc EXCEPT ![i] = "notCreated"]
  /\ UNCHANGED <<variant, exists, sizeMB, probe, pc, cur, snap, resp,
                 results, collected, full, direct, ret, saved>>
  /\ UNCHANGED nonOrchVars

\* transcribe_audio(batch_output): upload_file, then the read of the log
\* call that follows it ("Uploaded file URL" or "Transcription error")
WorkerUpload(i) ==
  /\ wpc[i] = "created"
  /\ i \in files
  /\ LogRead(i)
  /\ \E uploaded \in BOOLEAN :
       wpc' = [wpc EXCEPT ![i] = IF uploaded THEN "logUploaded"
                                 ELSE "logTranscriptionError"]
  /\ UNCHANGED <<variant, exists, sizeMB, probe, pc, cur, files, everCut,
                 resp, results, collected, full, log_text, direct, ret, saved>>
  /\ UNCHANGED nonOrchVars

\* the write of "Uploaded file URL", then fal_client.subscribe; when it
\* returns, transcribe_audio returns its value and os.remove(batch_output)
WorkerSubscribe(i) ==
  /\ wpc[i] = "logUploaded"
  /\ LogWrite(i, "Uploaded file URL")
  /\ \E o \in Returned(CutLength(variant, probe, i)) \cup {RaiseSubscribe} :
       IF o = RaiseSubscribe
       THEN /\ wpc' = [wpc EXCEPT ![i] = "subscribeRaised"]
            /\ UNCHANGED <<resp, files>>
       ELSE /\ resp' = [resp EXCEPT ![i] = o]
            /\ files' = files \ {i}
            /\ wpc' = [wpc EXCEPT ![i] = "removed"]
  /\ UNCHANGED <<variant, exists, sizeMB, probe, pc, cur, everCut, snap,
                 results, collected, full, direct, ret, saved>>
  /\ UNCHANGED nonOrchVars

\* except Exception: log.log("Transcription error ..."): the read
WorkerSubscribeRaised(i) ==
  /\ wpc[i] = "subscribeRaised"
  /\ LogRead(i)
  /\ wpc' = [wpc EXCEPT ![i] = "logTranscriptionError"]
  /\ UNCHANGED <<variant, exists, sizeMB, probe, pc, cur, files, everCut,
                 resp, results, collected, full, log_text, direct, ret, saved>>
  /\ UNCHANGED nonOrchVars

\* ... the write, return None, and os.remove(batch_output)
WorkerTranscriptionError(i) ==
  /\ wpc[i] = "logTranscriptionError"
  /\ LogWrite(i, "Transcription error")
  /\ resp' = [resp EXCEPT ![i] = None]
  /\ files' = files \ {i}
  /\ wpc' = [wpc EXCEPT ![i] = "removed"]
  /\ UNCHANGED <<variant, exists, sizeMB, probe, pc, cur, everCut, snap,
                 results, collected, full, direct, ret, saved>>
  /\ UNCHANGED nonOrchVars

\* log.log("Batch ... completed ...") or log.log("Error: Batch file ... was
\* not created"): the read
WorkerLogLast(i) ==
  /\ wpc[i] \in {"removed", "notCreated"}
  /\ LogRead(i)
  /\ IF wpc[i] = "removed"
     THEN /\ wpc' = [wpc EXCEPT ![i] = "logCompleted"]
          /\ UNCHANGED resp
     ELSE /\ wpc' = [wpc EXCEPT ![i] = "logNotCreated"]
          /\ resp' = [resp EXCEPT ![i] = None]
  /\ UNCHANGED <<variant, exists, sizeMB, probe, pc, cur, files, everCut,
                 results, collected, full, log_text, direct, ret, saved>>
  /\ UNCHANGED nonOrchVars

\* ... the write, and "return start, result"
WorkerReturn(i) ==
  /\ wpc[i] \in {"logCompleted", "logNotCreated"}
  /\ IF wpc[i] = "logCompleted"
     THEN LogWrite(i, "Batch completed")
     ELSE LogWrite(i, "Error: Batch file was not created")
  /\ wpc' = [wpc EXCEPT ![i] = "done"]
  /\ UNCHANGED <<variant, exists, sizeMB, probe, pc, cur, files, everCut,
                 snap, resp, results, collected, full, direct, ret, saved>>
  /\ UNCHANGED nonOrchVars

\* One turn of "for future in as_completed(futures)"
Collect(i) ==
  /\ pc = "collect"
  /\ wpc[i] = "done"
  /\ \A k \in DOMAIN collected : collected[k] # i
  /\ collected' = Append(collected, i)
  /\ IF Truthy(resp[i])
     THEN results' = Append(results, <<StartOf(variant, i), resp[i]>>)
     ELSE UNCHANGED results
  /\ UNCHANGED <<variant, exists, sizeMB, probe, pc, cur, files, everCut,
                 wpc, snap, resp, full, log_text, direct, ret, saved>>
  /\ UNCHANGED nonOrchVars

\* The merge began when the first future had completed.
FirstCompleted == Len(collected) >= 1

\* The executor block is left: as_completed has yielded every future and
\* ThreadPoolExecutor.__exit__ has joined the pool threads.
ExecutorLeft == Len(collected) = Cardinality(DOMAIN wpc)

\* After the executor block: sort, merge, the closing log lines, return.
\* A KeyError of the merge reaches the outer except, which returns None.
TrMerge ==
  /\ variant = "transcriber"
  /\ pc = "collect"
  /\ ExecutorLeft
  /\ LET sorted == SortByStart(results)
         m == MergeAll(full, sorted)
     IN /\ results' = sorted
        /\ full' = m.full
        /\ IF m.raised
           THEN /\ log_text' = Append(log_text, <<"Batch processing error", 0>>)
                /\ ret' = None
           ELSE /\ log_text' = log_text \o <<<<"Total batch processing time", 0>>,
                                              <<"Average time per batch", 0>>>>
                /\ ret' = m.full
  /\ pc' = "returned"
  /\ UNCHANGED <<variant, exists, sizeMB, probe, cur, files, everCut, wpc,
                 snap, resp, collected, direct, saved>>
  /\ UNCHANGED nonOrchVars

NextTr ==
  \/ TrBegin
  \/ TrWhole
  \/ \E i \in DOMAIN wpc : WorkerStart(i)
  \/ \E i \in DOMAIN wpc : WorkerLogProcessing(i)
  \/ \E i \in DOMAIN wpc : WorkerCut(i)
  \/ \E i \in DOMAIN wpc : WorkerUpload(i)
  \/ \E i \in DOMAIN wpc : WorkerSubscribe(i)
  \/ \E i \in DOMAIN wpc : WorkerSubscribeRaised(i)
  \/ \E i \in DOMAIN wpc : WorkerTranscriptionError(i)
  \/ \E i \in DOMAIN wpc : WorkerLogLast(i)
  \/ \E i \in DOMAIN wpc : WorkerReturn(i)
  \/ \E i \in DOMAIN wpc : Collect(i)
  \/ TrMerge

Next == NextApp \/ NextTr

Spec == Init /\ [][Next]_vars

\* ------------------------------------------ transcriber.py, the thread pool
\* The pool followed for itself: every process_batch call is taken whole, as
\* one step from the moment a pool thread picked it to its return, so that
\* plans longer than the pool can be explored.
MaxPoolSegments == 5

InitPool ==
  /\ variant = "transcriber"
  /\ exists = TRUE
  /\ sizeMB = SmallSizeMB + 1
  /\ probe \in {k * BatchDurationTr * TicksPerSecond : k \in 1..MaxPoolSegments}
  /\ pc = "start"
  /\ cur = 0
  /\ files = {}
  /\ everCut = {}
  /\ wpc = <<>>
  /\ snap = <<>>
  /\ resp = <<>>
  /\ results = <<>>
  /\ collected = <<>>
  /\ full = EmptyTranscription
  /\ log_text = <<>>
  /\ direct = Pending
  /\ ret = Pending
  /\ saved = FALSE
  /\ SanIdle
  /\ NameIdle
  /\ RunsIdle
  /\ LogIdle
  /\ HandleIdle

\* process_batch(start) from its first line to "return start, result": the
\* segment is cut, transcribed and removed, or the cut produced no file. The
\* log calls of process_batch are followed in Spec (LogRead, LogWrite), not
\* here.
ProcessBatch(i) ==
  /\ wpc[i] = "begin"
  /\ everCut' = everCut \cup {i}
  /\ \E created \in BOOLEAN :
       resp' = [resp EXCEPT ![i] =
                  IF created THEN transcribe_audio(i, TRUE, [text |-> <<"hi">>]).value
                  ELSE None]
  /\ wpc' = [wpc EXCEPT ![i] = "done"]
  /\ UNCHANGED <<variant, exists, sizeMB, probe, pc, cur, files, snap,
                 results, collected, full, log_text, direct, ret, saved>>
  /\ UNCHANGED nonOrchVars

NextPool ==
  \/ TrBegin
  \/ \E i \in DOMAIN wpc : WorkerStart(i)
  \/ \E i \in DOMAIN wpc : ProcessBatch(i)
  \/ \E i \in DOMAIN wpc : Collect(i)
  \/ TrMerge

SpecPool == InitPool /\ [][NextPool]_vars

\* A process_batch call whose fal_client.subscribe never returns: the segment
\* is cut, its file stays on disk, the pool thread stays in the call.
ProcessBatchHangs(i) ==
  /\ wpc[i] = "begin"
  /\ everCut' = everCut \cup {i}
  /\ files' = files \cup {i}
  /\ wpc' = [wpc EXCEPT ![i] = "hung"]
  /\ UNCHANGED <<variant, exists, sizeMB, probe, pc, cur, snap, resp,
                 results, collected, full, log_text, direct, ret, saved>>
  /\ UNCHANGED nonOrchVars

\* The pool with remote calls that may hang. as_completed(futures) is given no
\* timeout and hands out finished futures only (Collect), so the timeout of
\* future.result(timeout=600) is that of a call on a finished future.
NextHang ==
  \/ NextPool
  \/ \E i \in DOMAIN wpc : ProcessBatchHangs(i)

SpecHang == InitPool /\ [][NextHang]_vars

\* ------------------------------------------------ utils.py sanitize_filename
\* A string is a sequence of characters. Characters outside ASCII are named:
\* "fw_i" is U+FF49 (fullwidth i), "e_acute" is U+00E9, "combining_acute" is
\* U+0301, "cjk_zhong" is U+4E2D (no decomposition).
Digits == {"0", "1", "2", "3", "4", "5", "6", "7", "8", "9"}
Letters ==
  {"a", "b", "c", "d", "e", "f", "g", "h", "i", "j", "k", "l", "m", "n", "o",
   "p", "q", "r", "s", "t", "u", "v", "w", "x", "y", "z"}
Spaces == {" "}
Ascii == Digits \cup Letters \cup Spaces \cup {"?", "/", ".", "-", "_", "\\"}

IsPrefix(p, s) == Len(p) <= Len(s) /\ SubSeq(s, 1, Len(p)) = p

Drop(s, n) == SubSeq(s, n + 1, Len(s))

Podcast == <<"/", "p", "o", "d", "c", "a", "s", "t", "/">>

\* re.sub(r'\/podcast\/', '', filename)
RECURSIVE RemovePodcast(_)
RemovePodcast(s) ==
  IF s = <<>> THEN <<>>
  ELSE IF IsPrefix(Podcast, s) THEN RemovePodcast(Drop(s, Len(Podcast)))
  ELSE <<Head(s)>> \o RemovePodcast(Tail(s))

RECURSIVE SkipDigits(_)
SkipDigits(s) ==
  IF s # <<>> /\ Head(s) \in Digits THEN SkipDigits(Tail(s)) ELSE s

\* re.sub(r'id\d+', '', filename)
RECURSIVE RemoveId(_)
RemoveId(s) ==
  IF s = <<>> THEN <<>>
  ELSE IF Len(s) >= 3 /\ s[1] = "i" /\ s[2] = "d" /\ s[3] \in Digits
  THEN RemoveId(SkipDigits(Drop(s, 2)))
  ELSE <<Head(s)>> \o RemoveId(Tail(s))

\* filename.split('?')[0]
RECURSIVE BeforeFirst(_, _)
BeforeFirst(s, c) ==
  IF s = <<>> \/ Head(s) = c THEN <<>>
  ELSE <<Head(s)>> \o BeforeFirst(Tail(s), c)

\* filename.split('/')[-1]
RECURSIVE AfterLast(_, _)
AfterLast(s, c) ==
  IF \E k \in DOMAIN s : s[k] = c
  THEN AfterLast(Drop(s, CHOOSE k \in DOMAIN s : s[k] = c), c)
  ELSE s

\* unicodedata.normalize('NFKD', c) of one character
NFKD(c) ==
  IF c = "fw_i" THEN <<"i">>
  ELSE IF c = "e_acute" THEN <<"e", "combining_acute">>
  ELSE <<c>>

RECURSIVE Normalize(_)
Normalize(s) ==
  IF s = <<>> THEN <<>> ELSE NFKD(Head(s)) \o Normalize(Tail(s))

\* filename.encode('ASCII', 'ignore').decode('ASCII')
RECURSIVE AsciiOnly(_)
AsciiOnly(s) ==
  IF s = <<>> THEN <<>>
  ELSE IF Head(s) \in Ascii THEN <<Head(s)>> \o AsciiOnly(Tail(s))
  ELSE AsciiOnly(Tail(s))

KeepEverything(s) == s

\* re.sub(r'[^\w\s-]', '', filename)
RECURSIVE KeepWordSpaceHyphen(_)
KeepWordSpaceHyphen(s) ==
  IF s = <<>> THEN <<>>
  ELSE IF Head(s) \in Letters \cup Digits \cup {"_"} \cup Spaces \cup {"-"}
  THEN <<Head(s)>> \o KeepWordSpaceHyphen(Tail(s))
  ELSE KeepWordSpaceHyphen(Tail(s))

\* filename.strip()
RECURSIVE Strip(_)
Strip(s) ==
  IF s = <<>> THEN <<>>
  ELSE IF Head(s) \in Spaces THEN Strip(Tail(s))
  ELSE IF s[Len(s)] \in Spaces THEN Strip(SubSeq(s, 1, Len(s) - 1))
  ELSE s

RECURSIVE SkipSpaces(_)
SkipSpaces(s) ==
  IF s # <<>> /\ Head(s) \in Spaces THEN SkipSpaces(Tail(s)) ELSE s

\* re.sub(r'\s+', '_', ...)
RECURSIVE SpacesToUnderscore(_)
SpacesToUnderscore(s) ==
  IF s = <<>> THEN <<>>
  ELSE IF Head(s) \in Spaces THEN <<"_">> \o SpacesToUnderscore(SkipSpaces(s))
  ELSE <<Head(s)>> \o SpacesToUnderscore(Tail(s))

sanitize_filename(filename) ==
  LET f1 == RemovePodcast(filename)
      f2 == RemoveId(f1)
      f3 == BeforeFirst(f2, "?")
      f4 == AfterLast(f3, "/")
      f5 == Normalize(f4)
      f6 == AsciiOnly(f5)
      f7 == KeepWordSpaceHyphen(f6)
  IN SpacesToUnderscore(Strip(f7))

\* The arguments: up to MaxPieces pieces, each a character or one of the
\* words the function looks for.
Pieces ==
  {<<c>> : c \in {"i", "d", "1", " ", "?", "/", ".", "-", "\\", "fw_i", "e_acute"}}
    \cup {Podcast, <<"/", "p", "o", "d">>, <<"c", "a", "s", "t", "/">>,
          <<"i", "d", "1">>}

RECURSIVE Flatten(_)
Flatten(ps) == IF ps = <<>> THEN <<>> ELSE Head(ps) \o Flatten(Tail(ps))

SanInputs ==
  {Flatten(ps) : ps \in UNION {[1..n -> Pieces] : n \in 0..MaxPieces}}

OrchIdleOf(v, r) ==
  /\ variant = v
  /\ exists = FALSE
  /\ sizeMB = 0
  /\ probe = -1
  /\ pc = "idle"
  /\ cur = 0
  /\ files = {}
  /\ everCut = {}
  /\ wpc = <<>>
  /\ snap = <<>>
  /\ resp = <<>>
  /\ results = <<>>
  /\ collected = <<>>
  /\ full = EmptyTranscription
  /\ log_text = <<>>
  /\ direct = Pending
  /\ ret = r
  /\ saved = FALSE

OrchIdle == OrchIdleOf("app", Pending)

InitSan ==
  /\ OrchIdle
  /\ NameIdle
  /\ RunsIdle
  /\ LogIdle
  /\ HandleIdle
  /\ sanIn \in SanInputs
  /\ sanOut = <<>>
  /\ sanTwice = <<>>
  /\ sanPc = "start"

\* sanitize_filename(x)
Sanitize ==
  /\ sanPc = "start"
  /\ sanOut' = sanitize_filename(sanIn)
  /\ sanPc' = "once"
  /\ UNCHANGED <<sanIn, sanTwice>>
  /\ UNCHANGED nonSanVars

\* sanitize_filename applied to a name that sanitize_filename returned
SanitizeAgain ==
  /\ sanPc = "once"
  /\ sanTwice' = sanitize_filename(sanOut)
  /\ sanPc' = "twice"
  /\ UNCHANGED <<sanIn, sanOut>>
  /\ UNCHANGED nonSanVars

NextSan == Sanitize \/ SanitizeAgain

SpecSan == InitSan /\ [][NextSan]_vars

\* ------------------------------------------- save_transcript's file names
MaxUrlSegments == 3

MinSegmentLength == 10

Str(s) == [str |-> s]

PodcastWord == <<"p", "o", "d", "c", "a", "s", "t">>

Transcript == <<"t", "r", "a", "n", "s", "c", "r", "i", "p", "t">>

\* sub in s
Contains(sub, s) ==
  \E k \in 1..(Len(s) - Len(sub) + 1) : SubSeq(s, k, k + Len(sub) - 1) = sub

\* s.split(c)
RECURSIVE Split(_, _)
Split(s, c) ==
  IF \E k \in DOMAIN s : s[k] = c
  THEN LET first == CHOOSE k \in DOMAIN s :
                      s[k] = c /\ \A j \in 1..(k - 1) : s[j] # c
       IN <<SubSeq(s, 1, first - 1)>> \o Split(Drop(s, first), c)
  ELSE <<s>>

\* segment.replace('-', ' ')
ReplaceHyphen(s) == [k \in DOMAIN s |-> IF s[k] = "-" THEN " " ELSE s[k]]

\* cleaned.isdigit()
IsDigit(s) == s # <<>> /\ \A k \in DOMAIN s : s[k] \in Digits

\* The tests a path segment passes to be taken as the episode name.
NameSegment(segment) ==
  /\ Len(segment) > MinSegmentLength
  /\ LET cleaned == ReplaceHyphen(segment)
     IN ~IsPrefix(<<"i", "d">>, cleaned) /\ ~IsDigit(cleaned)

get_episode_name(u, fallback_title) ==
  LET path == Split(u, "/")
      hits == {k \in DOMAIN path : NameSegment(path[k])}
  IN IF Contains(PodcastWord, u) /\ hits # {}
     THEN sanitize_filename(path[CHOOSE k \in hits : \A j \in hits : k <= j])
     ELSE IF "str" \in DOMAIN fallback_title /\ fallback_title.str # <<>>
     THEN sanitize_filename(fallback_title.str)
     ELSE Transcript

\* The path segments the urls are made of.
UrlSegments ==
  {<<"p", "o", "d", "c", "a", "s", "t", "s", ".", "a", "p", "p", "l", "e", ".", "c", "o", "m">>,
   <<"p", "o", "d", "c", "a", "s", "t">>,
   <<"t", "h", "e", "-", "d", "a", "i", "l", "y", "-", "s", "h", "o", "w">>,
   <<"i", "d", "1", "2", "0", "0", "3", "6", "1", "7", "3", "6">>,
   <<"1", "2", "3", "4", "5", "6", "7", "8", "9", "0", "1">>,
   <<"e", "x", "a", "m", "p", "l", "e", ".", "c", "o", "m">>,
   <<"u", "s">>}

RECURSIVE JoinWithSlash(_)
JoinWithSlash(segs) ==
  IF Len(segs) = 1 THEN segs[1]
  ELSE segs[1] \o <<"/">> \o JoinWithSlash(Tail(segs))

UrlInputs ==
  {JoinWithSlash(segs) :
     segs \in UNION {[1..n -> UrlSegments] : n \in 1..MaxUrlSegments}}

TitleInputs ==
  {None, Str(<<>>), Str(<<"t", "h", "e", " ", "d", "a", "i", "l", "y">>), Str(<<"?", "?">>), Str(<<"e_acute">>),
   Str(<<"cjk_zhong">>)}

ResultInputs == {None, [text |-> <<"hi">>, chunks |-> <<>>]}

InitName ==
  /\ \E r \in ResultInputs : OrchIdleOf("app", r)
  /\ SanIdle
  /\ RunsIdle
  /\ LogIdle
  /\ HandleIdle
  /\ url \in UrlInputs
  /\ title \in TitleInputs
  /\ episode_name = <<>>
  /\ written = {}
  /\ namePc = "start"

\* save_transcript(result, url, title, metadata)
WriteTranscript ==
  /\ namePc = "start"
  /\ saved' = save_transcript(ret)
  /\ IF save_transcript(ret)
     THEN /\ episode_name' = get_episode_name(url, title)
          /\ written' = {Append(episode_name', ".txt"),
                         Append(episode_name', "_full.json")}
     ELSE UNCHANGED <<episode_name, written>>
  /\ namePc' = "saved"
  /\ UNCHANGED <<url, title>>
  /\ UNCHANGED <<variant, exists, sizeMB, probe, pc, cur, files, everCut, wpc,
                 snap, resp, results, collected, full, log_text, direct, ret>>
  /\ UNCHANGED <<sanVars, runsVars, logVars, handleVars>>

NextName == WriteTranscript

SpecName == InitName /\ [][NextName]_vars

\* ------------------------------------- two runs of transcribe_in_batches
\* Two calls of transcribe_in_batches of the same variant in one working
\* directory, both past the plan: what is followed is each segment's cut,
\* its transcribe_audio call and the removal of its file.
MaxRunSegments == 2

Runs == {1, 2}

\* os.path.basename(file_path)
basename(path) == AfterLast(path, "/")

\* os.path.splitext(name)[0]: the name up to its last dot, leading dots
\* apart
splitext(name) ==
  LET dots == {k \in DOMAIN name :
                 name[k] = "." /\ \E j \in 1..(k - 1) : name[j] # "."}
  IN IF dots = {} THEN name
     ELSE SubSeq(name, 1, (CHOOSE k \in dots : \A j \in dots : j <= k) - 1)

base_name(file_path) == splitext(basename(file_path))

\* str(n) of a natural number
RECURSIVE Decimal(_)
Decimal(n) ==
  LET digit(k) == <<"0", "1", "2", "3", "4", "5", "6", "7", "8", "9">>[k + 1]
  IN IF n < 10 THEN <<digit(n)>>
     ELSE Decimal(n \div 10) \o <<digit(n % 10)>>

\* The same name for every segment of the run.
batch_output_without_start(start, base) ==
  <<"b", "a", "t", "c", "h", "_">> \o sanitize_filename(base)
    \o <<".", "m", "p", "3">>

\* f"batch_{start}_{sanitize_filename(base_name)}.mp3"
batch_output(start, base) ==
  <<"b", "a", "t", "c", "h", "_">> \o Decimal(start) \o <<"_">>
    \o sanitize_filename(base) \o <<".", "m", "p", "3">>

\* The file of segment i of run r.
SegmentFile(r, i) == batch_output(StartOf(variant, i), base_name(runPath[r]))

OnDisk(name) == \E f \in disk : f.name = name

ContentOf(name) == (CHOOSE f \in disk : f.name = name).by

RunPaths ==
  {<<"e", ".", "m", "p", "3">>,
   <<"e_acute", ".", "m", "p", "3">>,
   <<"x", "/", "e", ".", "m", "p", "3">>,
   <<"d", ".", "m", "p", "3">>}

InitRuns ==
  /\ \E v \in {"app", "transcriber"} : OrchIdleOf(v, Pending)
  /\ SanIdle
  /\ NameIdle
  /\ LogIdle
  /\ HandleIdle
  /\ runPath \in [Runs -> RunPaths]
  /\ runPlan \in [Runs -> 0..MaxRunSegments]
  /\ runPlan[1] >= 1
  /\ runPc = [r \in Runs |-> [i \in 1..runPlan[r] |-> "queued"]]
  /\ disk = {}
  /\ sent = [r \in Runs |-> [i \in 1..runPlan[r] |-> Pending]]

\* subprocess.call(cut_cmd) and "if os.path.exists(batch_output)". The cut
\* command has no -y: on a name that is taken ffmpeg overwrites the file or
\* leaves it, by the answer it reads. app.py cuts the segments of a run one
\* after the other.
RunCut(r, i) ==
  /\ runPc[r][i] = "queued"
  /\ variant = "app" => \A j \in 1..(i - 1) : runPc[r][j] \in {"done", "raised"}
  /\ LET name == SegmentFile(r, i)
         mine == [name |-> name, by |-> <<r, i>>]
     IN IF OnDisk(name)
        THEN /\ \E overwrite \in BOOLEAN :
                  disk' = IF overwrite
                          THEN {f \in disk : f.name # name} \cup {mine}
                          ELSE disk
             /\ runPc' = [runPc EXCEPT ![r][i] = "cut"]
        ELSE \E created \in BOOLEAN :
               IF created
               THEN /\ disk' = disk \cup {mine}
                    /\ runPc' = [runPc EXCEPT ![r][i] = "cut"]
               ELSE /\ UNCHANGED disk
                    /\ runPc' = [runPc EXCEPT ![r][i] = "done"]
  /\ UNCHANGED <<runPath, runPlan, sent>>
  /\ UNCHANGED <<orchVars, sanVars, nameVars, logVars, handleVars>>

\* transcribe_audio(batch_output): None when the file is gone, else
\* upload_file reads what the file holds.
RunTranscribe(r, i) ==
  /\ runPc[r][i] = "cut"
  /\ LET name == SegmentFile(r, i)
     IN sent' = [sent EXCEPT ![r][i] =
                   IF OnDisk(name) THEN [by |-> ContentOf(name)] ELSE None]
  /\ runPc' = [runPc EXCEPT ![r][i] = "transcribed"]
  /\ UNCHANGED <<runPath, runPlan, disk>>
  /\ UNCHANGED <<orchVars, sanVars, nameVars, logVars, handleVars>>

\* os.remove(batch_output): app.py tests os.path.exists first,
\* transcriber.py does not and raises FileNotFoundError when the file is
\* gone.
RunRemove(r, i) ==
  /\ runPc[r][i] = "transcribed"
  /\ LET name == SegmentFile(r, i)
     IN IF OnDisk(name)
        THEN /\ disk' = {f \in disk : f.name # name}
             /\ runPc' = [runPc EXCEPT ![r][i] = "done"]
        ELSE /\ UNCHANGED disk
             /\ runPc' = [runPc EXCEPT ![r][i] =
                            IF variant = "app" THEN "done" ELSE "raised"]
  /\ UNCHANGED <<runPath, runPlan, sent>>
  /\ UNCHANGED <<orchVars, sanVars, nameVars, logVars, handleVars>>

NextRuns ==
  \/ \E r \in Runs : \E i \in 1..runPlan[r] : RunCut(r, i)
  \/ \E r \in Runs : \E i \in 1..runPlan[r] : RunTranscribe(r, i)
  \/ \E r \in Runs : \E i \in 1..runPlan[r] : RunRemove(r, i)

SpecRuns == InitRuns /\ [][NextRuns]_vars

\* One run on its own: the second call plans nothing.
InitOneRun ==
  /\ InitRuns
  /\ runPlan[2] = 0
  /\ runPath[2] = runPath[1]

SpecOneRun == InitOneRun /\ [][NextRuns]_vars

\* --------------------------------------------------- logger.py, Logger.log
\* The pool threads of one run calling log.log on the module-level Logger.
\* Line 12 reads self.log_text and writes it back with the message added;
\* line 13 reads self.log_text again and writes st.session_state.log_text.
\* A thread switch can fall between any two of these.
MaxLogThreads == 2
MaxLogCalls == 2

\* What a Logger.log call leaves alone.
nonLoggerVars ==
  <<variant, exists, sizeMB, probe, pc, cur, files, everCut, resp, results,
    collected, full, direct, ret, saved, sanVars, nameVars, runsVars,
    handleVars>>

InitLog ==
  /\ variant = "transcriber"
  /\ exists = TRUE
  /\ sizeMB = SmallSizeMB + 1
  /\ probe = 0
  /\ pc = "logging"
  /\ cur = 0
  /\ files = {}
  /\ everCut = {}
  /\ wpc = [t \in 1..MaxLogThreads |-> "idle"]
  /\ snap = [t \in 1..MaxLogThreads |-> <<>>]
  /\ resp = <<>>
  /\ results = <<>>
  /\ collected = <<>>
  /\ full = EmptyTranscription
  /\ log_text = <<>>
  /\ direct = Pending
  /\ ret = Pending
  /\ saved = FALSE
  /\ SanIdle
  /\ NameIdle
  /\ RunsIdle
  /\ HandleIdle
  /\ session_log_text = <<>>
  /\ calls = [t \in 1..MaxLogThreads |-> 0]

\* line 12, the read of self.log_text
LogLoad(t) ==
  /\ wpc[t] = "idle"
  /\ calls[t] < MaxLogCalls
  /\ LogRead(t)
  /\ wpc' = [wpc EXCEPT ![t] = "loaded"]
  /\ UNCHANGED <<log_text, session_log_text, calls>>
  /\ UNCHANGED nonLoggerVars

\* line 12, the write of self.log_text; the message is the number of the
\* call
LogStore(t) ==
  /\ wpc[t] = "loaded"
  /\ LogWrite(t, calls[t] + 1)
  /\ wpc' = [wpc EXCEPT ![t] = "stored"]
  /\ UNCHANGED <<snap, session_log_text, calls>>
  /\ UNCHANGED nonLoggerVars

\* line 13, the read of self.log_text
LogLoadAgain(t) ==
  /\ wpc[t] = "stored"
  /\ LogRead(t)
  /\ wpc' = [wpc EXCEPT ![t] = "reloaded"]
  /\ UNCHANGED <<log_text, session_log_text, calls>>
  /\ UNCHANGED nonLoggerVars

\* line 13, the write of st.session_state.log_text; log returns
LogPublish(t) ==
  /\ wpc[t] = "reloaded"
  /\ session_log_text' = snap[t]
  /\ calls' = [calls EXCEPT ![t] = calls[t] + 1]
  /\ wpc' = [wpc EXCEPT ![t] = "idle"]
  /\ UNCHANGED <<log_text, snap>>
  /\ UNCHANGED nonLoggerVars

NextLog ==
  \/ \E t \in DOMAIN wpc : LogLoad(t)
  \/ \E t \in DOMAIN wpc : LogStore(t)
  \/ \E t \in DOMAIN wpc : LogLoadAgain(t)
  \/ \E t \in DOMAIN wpc : LogPublish(t)

SpecLog == InitLog /\ [][NextLog]_vars

\* ------------------------------------------------------------- the claims
Finished == pc \in {"returned", "done"}

\* The run took the batch path: it probed a duration and built a plan.
BatchPath ==
  /\ exists
  /\ probe >= 0
  /\ pc \notin {"start", "whole", "idle"}
  /\ direct = Pending

\* A batch run that ended with at least one planned segment.
BatchDone == Finished /\ BatchPath /\ BatchNums(variant, probe) # {}

\* The segment produced nothing: no file was cut, or transcribe_audio
\* returned None.
Failed(i) == i \notin DOMAIN resp \/ resp[i] = None

WellFormedChunk(c) == {"start", "end", "text"} \subseteq DOMAIN c

\* A usable service response: a dict with 'text' whose chunks, if any, have
\* 'start' and 'end'.
Usable(r) ==
  /\ IsDict(r)
  /\ "text" \in DOMAIN r
  /\ "chunks" \in DOMAIN r => \A k \in DOMAIN r.chunks : WellFormedChunk(r.chunks[k])

Survived(i) == i \in DOMAIN resp /\ Usable(resp[i])

ChunkCount(r) == IF "chunks" \in DOMAIN r THEN Len(r.chunks) ELSE 0

RECURSIVE SumChunkCounts(_)
SumChunkCounts(S) ==
  IF S = {} THEN 0
  ELSE LET i == CHOOSE x \in S : TRUE
       IN ChunkCount(resp[i]) + SumChunkCounts(S \ {i})

\* The batch_nums of S in ascending order.
RECURSIVE Ascending(_)
Ascending(S) ==
  IF S = {} THEN <<>>
  ELSE LET i == CHOOSE x \in S : \A y \in S : x <= y
       IN <<i>> \o Ascending(S \ {i})

RECURSIVE JoinWithSpace(_)
JoinWithSpace(ts) ==
  IF ts = <<>> THEN <<>>
  ELSE IF Len(ts) = 1 THEN ts[1]
  ELSE ts[1] \o <<" ">> \o JoinWithSpace(Tail(ts))

Survivors == {i \in BatchNums(variant, probe) : Survived(i)}

SurvivorTexts == [k \in 1..Cardinality(Survivors) |-> resp[Ascending(Survivors)[k]].text]

Offset(i) == StartOf(variant, i) * TicksPerSecond

\* The survivors' texts in ascending offset, each followed by one space.
TextsInOrder ==
  IF Survivors = {} THEN <<>> ELSE JoinWithSpace(SurvivorTexts) \o <<" ">>

\* C1: when every planned segment of a batch run fails, transcribe_in_batches
\* returns no result and the caller writes no output file.
C1_AllFailedNoResult ==
  (BatchDone /\ \A i \in BatchNums(variant, probe) : Failed(i))
    => (~IsDict(ret) /\ ~saved)

\* C2: when exactly one planned segment fails and the others succeed, a
\* result is returned whose chunk count is the sum of the survivors' chunk
\* counts, and the log holds an entry of the failing segment.
C2_OneFailed ==
  \A f \in BatchNums(variant, probe) :
    (BatchDone /\ Failed(f)
       /\ \A i \in BatchNums(variant, probe) \ {f} : Survived(i))
    => /\ IsDict(ret)
       /\ Len(ret.chunks) = SumChunkCounts(BatchNums(variant, probe) \ {f})
       /\ \E k \in DOMAIN log_text : log_text[k][2] = f

\* C3: when some segment yields a usable result, the run returns the result
\* assembled from the usable segments alone, whatever the other segments'
\* responses were.
C3_UnusableSkipped ==
  (BatchDone /\ Survivors # {})
    => /\ IsDict(ret)
       /\ Len(ret.chunks) = SumChunkCounts(Survivors)
       /\ ret.text = TextsInOrder

\* The file is at or below the thresholds of the variant.
AtOrBelowThreshold ==
  /\ exists
  /\ IF variant = "app" THEN sizeMB <= MaxSizeMBApp
     ELSE /\ sizeMB <= SmallSizeMB
          /\ probe >= 0
          /\ probe <= SmallDurationSec * TicksPerSecond

\* C4: a file at or below the size threshold (and, in transcriber.py, at or
\* below the duration threshold) is transcribed by one direct
\* transcribe_audio call whose value is returned; nothing is cut and no
\* worker is started; the whole-file path and the batch path exclude each
\* other.
C4_SmallFileDirect ==
  /\ (Finished /\ AtOrBelowThreshold)
       => (direct # Pending /\ ret = direct /\ everCut = {} /\ wpc = <<>>)
  /\ direct # Pending => (everCut = {} /\ wpc = <<>> /\ files = {})

C4_Witness ==
  /\ Finished
  /\ variant = "transcriber"
  /\ sizeMB = SmallSizeMB
  /\ probe = SmallDurationSec * TicksPerSecond
  /\ IsDict(ret)
  /\ ret = direct

\* Where the cut of segment i ends in the source, in ticks.
SegmentEnd(i) == Offset(i) + CutLength(variant, probe, i)

\* C5: for every duration D > 0 the planned segments start at 0, each starts
\* where the one before it ends, and the last ends at D.
C5_PlanPartitions ==
  (BatchPath /\ probe > 0)
    => LET N == BatchNums(variant, probe)
       IN /\ N # {}
          /\ \A i \in N : Offset(i) = IF i = 1 THEN 0 ELSE SegmentEnd(i - 1)
          /\ \A i \in N : (i + 1 \notin N) => SegmentEnd(i) = probe

\* C6: in a returned batch result, every chunk {s, e, t} of a segment with
\* offset o that yielded a usable result is present exactly once, as
\* {s + o, e + o, t}.
C6_ChunksShiftedOnce ==
  (BatchDone /\ IsDict(ret))
    => \A i \in Survivors :
         "chunks" \in DOMAIN resp[i]
           => \A k \in DOMAIN resp[i].chunks :
                LET c == resp[i].chunks[k]
                    shifted == Chunk(c.start + Offset(i), c.end + Offset(i), c.text)
                IN Cardinality({p \in DOMAIN ret.chunks : ret.chunks[p] = shifted}) = 1

\* The scenario of the claim: 5400 s cut in segments of 1800 s is planned at
\* 0, 1800 and 3600, and the chunk {0, 5, "hi"} of the segment at 1800 is
\* returned as {1800, 1805, "hi"}.
C6_Witness ==
  /\ Finished
  /\ probe = 5400 * TicksPerSecond
  /\ {StartOf(variant, i) : i \in everCut} = {0, 1800, 3600}
  /\ 2 \in DOMAIN resp
  /\ resp[2] = [text |-> <<"hi">>, chunks |-> <<Chunk(0, 5 * TicksPerSecond, "hi")>>]
  /\ IsDict(ret)
  /\ \E p \in DOMAIN ret.chunks :
       ret.chunks[p] = Chunk(1800 * TicksPerSecond, 1805 * TicksPerSecond, "hi")

\* The chunks of r are in order and lie within a file of len ticks.
ChunksWithin(r, len) ==
  "chunks" \in DOMAIN r =>
    /\ \A k \in DOMAIN r.chunks :
         /\ 0 <= r.chunks[k].start
         /\ r.chunks[k].start <= r.chunks[k].end
         /\ r.chunks[k].end <= len
    /\ \A k \in DOMAIN r.chunks : \A l \in DOMAIN r.chunks :
         k < l => r.chunks[k].start <= r.chunks[l].start

\* C7: in transcriber.py, whatever the order in which the workers complete,
\* the merged entries are in ascending offset; when every merged segment's
\* chunks are in order and within the segment, the final chunks are
\* non-decreasing in start and lie within [0, total duration].
C7_OffsetOrder ==
  (variant = "transcriber" /\ BatchDone /\ IsDict(ret))
    => /\ \A p \in DOMAIN results : \A q \in DOMAIN results :
            p < q => results[p][1] < results[q][1]
       /\ ret.text = TextsInOrder
       /\ (\A i \in Survivors : ChunksWithin(resp[i], CutLength(variant, probe, i)))
            => /\ \A p \in DOMAIN ret.chunks : \A q \in DOMAIN ret.chunks :
                    p < q => ret.chunks[p].start <= ret.chunks[q].start
               /\ \A p \in DOMAIN ret.chunks :
                    /\ 0 <= ret.chunks[p].start
                    /\ ret.chunks[p].end <= probe

\* The second segment completed first, both were merged.
C7_Witness ==
  /\ variant = "transcriber"
  /\ BatchDone
  /\ IsDict(ret)
  /\ collected = <<2, 1>>
  /\ Len(results) = 2
  /\ Len(ret.chunks) = 4
  /\ \A i \in Survivors : ChunksWithin(resp[i], CutLength(variant, probe, i))

\* C8: the final text is the surviving segments' texts in ascending offset
\* joined by one space, with nothing before the first or after the last.
C8_TextJoined ==
  (BatchDone /\ IsDict(ret) /\ \A i \in BatchNums(variant, probe) : Failed(i) \/ Survived(i))
    => ret.text = JoinWithSpace(SurvivorTexts)

\* C9: a segment file is gone as soon as its transcription attempt is over:
\* none is left between two iterations of app.py's loop, none once its
\* process_batch call is done, none when transcribe_in_batches has returned.
C9_SegmentFilesDeleted ==
  /\ Finished => files = {}
  /\ pc = "loop" => files = {}
  /\ \A i \in DOMAIN wpc : wpc[i] = "done" => i \notin files

\* C10: sanitizing a sanitized name changes nothing
\* (sanitize_filename(sanitize_filename(x)) = sanitize_filename(x)).
C10_Idempotent == sanPc = "twice" => sanTwice = sanOut

WordCharacters == Letters \cup Digits \cup {"_"}

\* C11: the output of sanitize_filename contains only ASCII word characters
\* (letters, digits, underscore): no hyphen, no whitespace, no '/', no
\* backslash, no '?'.
C11_OnlyWordCharacters ==
  sanPc \in {"once", "twice"}
    => \A k \in DOMAIN sanOut : sanOut[k] \in WordCharacters

\* C11 as the code has it: the output contains only ASCII letters, digits,
\* underscores and hyphens; whitespace, '/', backslash, '?' and every other
\* character are gone, so it neither starts nor ends with whitespace.
C11_WordCharactersOrHyphen ==
  sanPc \in {"once", "twice"}
    => \A k \in DOMAIN sanOut : sanOut[k] \in WordCharacters \cup {"-"}

\* An accented letter, a blank and a hyphen come out as 'e_-'.
C11_Witness ==
  /\ sanPc = "once"
  /\ sanIn = <<"e_acute", " ", "-">>
  /\ sanOut = <<"e", "_", "-">>

AboveSizeThreshold ==
  sizeMB > (IF variant = "app" THEN MaxSizeMBApp ELSE SmallSizeMB)

\* The log holds the line that announces the plan ("Processing N batches").
PlanAnnounced ==
  \E k \in DOMAIN log_text : log_text[k][1] = "Processing batches"

\* C12: for a file above the size threshold whose duration is zero, shorter
\* than one second or not probeable, transcribe_in_batches returns no result
\* without building a plan, cutting a segment or starting a worker.
C12_ProbeFailsFast ==
  (exists /\ AboveSizeThreshold /\ probe < TicksPerSecond)
    => /\ ~PlanAnnounced
       /\ everCut = {}
       /\ wpc = <<>>
       /\ pc \notin {"loop", "collect"}
       /\ Finished => ret = None

\* C14: a file at or below the size threshold whose duration cannot be
\* probed is transcribed whole by one direct transcribe_audio call whose
\* value is returned; nothing is cut.
C14_WholeWithoutProbe ==
  (Finished /\ exists /\ ~AboveSizeThreshold /\ probe = -1)
    => (direct # Pending /\ ret = direct /\ everCut = {} /\ wpc = <<>>)

TitleGiven == "str" \in DOMAIN title /\ title.str # <<>>

\* C15: save_transcript writes '<name>.txt' and '<name>_full.json' where
\* <name> is sanitize_filename of the episode's title, whatever the url.
C15_NamedFromTitle ==
  (namePc = "saved" /\ saved /\ TitleGiven)
    => written = {Append(sanitize_filename(title.str), ".txt"),
                  Append(sanitize_filename(title.str), "_full.json")}

\* A segment that was started is not started again.
StartedOnce ==
  \A i \in DOMAIN wpc : wpc[i] # "queued" => (i \in DOMAIN wpc' /\ wpc'[i] # "queued")

\* C16: in a concurrent batch run at most min(4, number of planned segments)
\* segments are in progress at any time; every planned segment is queued,
\* leaves the queue once and is never started again, and all of them have
\* run when the run returns.
C16_PoolBounded ==
  /\ [](/\ Cardinality(Running)
             <= Min(PoolSize, Cardinality(BatchNums(variant, probe)))
        /\ pc \in {"collect", "returned"} => DOMAIN wpc = BatchNums(variant, probe)
        /\ pc = "returned" =>
             /\ \A i \in DOMAIN wpc : wpc[i] = "done"
             /\ everCut = BatchNums(variant, probe))
  /\ [][StartedOnce]_vars

\* The pool is full and a segment waits in the queue.
C16_Witness ==
  /\ pc = "collect"
  /\ Cardinality(Running) = PoolSize
  /\ \E i \in DOMAIN wpc : wpc[i] = "queued"

\* The planned segments whose transcribe_audio call returned a result.
WithResult == {i \in DOMAIN resp : Truthy(resp[i])}

\* results holds the result of every segment of S once, and nothing else.
HoldsOnce(S) ==
  /\ Len(results) = Cardinality(S)
  /\ \A i \in S :
       \E p \in DOMAIN results : results[p] = <<StartOf(variant, i), resp[i]>>

\* C17: in transcriber.py the sort and the merge begin only when every
\* worker has finished and every result is collected: then no worker is
\* running, results holds every segment result once, and results does not
\* change any more; results changes only in steps of the collecting thread,
\* never in a worker's step.
C17_MergeAfterWorkers ==
  /\ []((variant = "transcriber" /\ pc = "returned" /\ wpc # <<>>)
          => /\ \A i \in DOMAIN wpc : wpc[i] = "done"
             /\ \A i \in DOMAIN wpc :
                  Cardinality({k \in DOMAIN collected : collected[k] = i}) = 1
             /\ HoldsOnce(WithResult))
  /\ [][/\ results' # results => (pc = "collect" /\ wpc' = wpc)
        /\ pc = "returned" => results' = results]_vars

\* A run of five segments merged after the workers completed out of order,
\* one of them without a result.
C17_Witness ==
  /\ variant = "transcriber"
  /\ pc = "returned"
  /\ Cardinality(DOMAIN wpc) = 5
  /\ collected[1] = 5
  /\ Cardinality(WithResult) = 4
  /\ IsDict(ret)

\* Segment i of run r works on a file of its own: while the segment is cut
\* and not yet transcribed its file is on disk and holds its own cut, what
\* it sent to the service is its own cut, and its removal found the file.
OwnFile(r, i) ==
  /\ runPc[r][i] = "cut"
       => (OnDisk(SegmentFile(r, i)) /\ ContentOf(SegmentFile(r, i)) = <<r, i>>)
  /\ sent[r][i] \in {Pending, [by |-> <<r, i>>]}
  /\ runPc[r][i] # "raised"

\* C18: within one run any two distinct planned offsets have distinct
\* segment file names, so in a run on its own every segment writes, reads
\* and deletes a file of its own.
C18_NamesUniquePerOffset ==
  \A r \in DOMAIN runPc :
    /\ \A i \in DOMAIN runPc[r] : \A j \in DOMAIN runPc[r] :
         i # j => SegmentFile(r, i) # SegmentFile(r, j)
    /\ \A i \in DOMAIN runPc[r] : OwnFile(r, i)

\* Two segments of one run of transcriber.py are cut and on disk at once.
C18_Witness ==
  /\ variant = "transcriber"
  /\ runPlan = <<2, 0>>
  /\ runPc[1] = <<"cut", "cut">>
  /\ Cardinality(disk) = 2

\* C19: with two runs at once, on the same source or on sources whose
\* sanitized base names are equal, no run overwrites, transcribes or
\* deletes a segment file of the other run.
C19_SegmentFileOwned ==
  \A r \in DOMAIN runPc : \A i \in DOMAIN runPc[r] : OwnFile(r, i)

\* Every log call the threads were to make has returned.
AllLogged ==
  /\ pc = "logging"
  /\ \A t \in DOMAIN wpc : wpc[t] = "idle" /\ calls[t] = MaxLogCalls

\* C20: whatever the interleaving of the threads' Logger.log calls, when all
\* have returned the log holds every message exactly once and
\* st.session_state.log_text equals the logger's log_text.
C20_NoMessageLost ==
  AllLogged
    => /\ \A t \in DOMAIN wpc : \A k \in 1..MaxLogCalls :
            Cardinality({p \in DOMAIN log_text : log_text[p] = <<k, t>>}) = 1
       /\ Len(log_text) = MaxLogThreads * MaxLogCalls
       /\ session_log_text = log_text

Hung == {i \in DOMAIN wpc : wpc[i] = "hung"}

\* C13: a run in which a segment's transcription attempt hangs still
\* terminates with the result of the other segments: until it has returned
\* it is never left without a step to take, and once every other segment is
\* collected it can merge and return.
C13_HangSkipped ==
  (pc = "collect" /\ Hung # {})
    => /\ ENABLED NextHang
       /\ (\A i \in DOMAIN wpc \ Hung :
             \E k \in DOMAIN collected : collected[k] = i) => ENABLED TrMerge

\* C21: the episode name save_transcript takes from get_episode_name is never
\* empty, whatever the url and the title: no file named '.txt' or
\* '_full.json' is written.
C21_NameNotEmpty ==
  (namePc = "saved" /\ saved)
    => /\ episode_name # <<>>
       /\ <<".txt">> \notin written
       /\ <<"_full.json">> \notin written

\* ------------------------------------------- app2.py: handle_transcribe
\* The messages of append_log are kept without their timestamps, and without
\* the file names and times they quote.
DownloadFailedMessage == "Failed to download audio file."
TranscriptionFailedMessage == "Transcription failed or returned empty result."

DownloadedFile == Str(<<"episode.mp3">>)

Num(n) == [num |-> n]

\* What extract_info gives in stage 1: it raises, or it returns an info dict
\* whose 'duration' is missing, zero or one hour and whose 'title' is missing
\* or given.
RaiseExtract == [raises |-> "extract_info"]
Infos ==
  { [duration |-> d, title |-> t] :
      d \in {None, Num(0), Num(3600)}, t \in {None, Str(<<"Episode">>)} }

\* Python truth of an info_dict.get(...) value: None and 0 are false.
Given(v) == v # None /\ v # Num(0) /\ v # Str(<<>>)

AppendAll(log, messages) == log \o messages

\* The values subscribe may return to app2.py: None, a dict without 'text',
\* a dict whose text is empty, and dicts with a text.
Results2 ==
  { None,
    [chunks |-> <<>>],
    EmptyTranscription,
    [text |-> <<"yo">>],
    [text |-> <<"hi">>, chunks |-> <<Chunk(0, 5 * TicksPerSecond, "hi")>>] }

Outcomes2 == {RaiseUpload, RaiseSubscribe} \cup Results2

\* app2.py transcribe_audio(file_path): the value and the messages.
transcribe_audio2(present, outcome) ==
  IF ~present
  THEN [value |-> None, logs |-> <<"Error: Input file does not exist">>]
  ELSE IF outcome = RaiseUpload
  THEN [value |-> None, logs |-> <<"Transcription error">>]
  ELSE IF outcome = RaiseSubscribe
  THEN [value |-> None, logs |-> <<"Uploaded file URL", "Transcription error">>]
  ELSE [value |-> outcome, logs |-> <<"Uploaded file URL">>]

\* app2.py transcribe_in_batches(file_path): getsize raises when the file is
\* gone; otherwise the file goes to transcribe_audio whole, whatever its
\* size (big), where it may be gone by then (present).
transcribe_in_batches2(sized, big, present, outcome) ==
  IF ~sized
  THEN [value |-> None, logs |-> <<"Batch processing error">>]
  ELSE transcribe_audio2(present, outcome)

\* app2.py save_transcript(result, url, title): the messages; writable tells
\* whether the two files could be written.
save_transcript2(result, writable) ==
  IF Truthy(result) /\ "text" \in DOMAIN result
  THEN IF writable
       THEN <<"Transcript saved successfully", "Full transcript data saved">>
       ELSE <<"Error saving transcript">>
  ELSE <<"Error: No valid transcription result to save">>

\* A stage 4 that asks only for the key: 'result and "text" in result'.
HasTextKey(result) == Truthy(result) /\ "text" \in DOMAIN result

\* 'result and result.get("text")', the test of stage 4.
HasText(result) ==
  /\ Truthy(result)
  /\ "text" \in DOMAIN result
  /\ result.text # <<>>

\* handle_transcribe up to setup_fal_api: the five fields are reset, then the
\* key is read from st.secrets; without it setup_fal_api raises.
HandleBegin ==
  /\ hpc \in {"idle", "returned", "raised"}
  /\ transcription_result' = None
  /\ transcription_completed' = FALSE
  /\ download_error' = ""
  /\ transcription_error' = ""
  /\ \E key \in BOOLEAN :
       IF key
       THEN /\ logs' = <<"Starting process...">>
            /\ hpc' = "metadata"
       ELSE /\ logs' = <<>>
            /\ hpc' = "raised"
  /\ UNCHANGED <<audio_file, audio_duration, metadata>>
  /\ UNCHANGED nonHandleVars

\* Stage 1: the duration and the metadata are stored; when extract_info
\* raises the duration is cleared and the metadata stay as they were.
HandleMetadata ==
  /\ hpc = "metadata"
  /\ \E info \in Infos \cup {RaiseExtract} :
       IF info = RaiseExtract
       THEN /\ logs' = Append(logs, "Metadata extraction error")
            /\ audio_duration' = None
            /\ UNCHANGED metadata
       ELSE /\ audio_duration' = info.duration
            /\ logs' = Append(logs, IF Given(info.duration)
                                    THEN "Podcast Duration"
                                    ELSE "Podcast duration not found.")
            /\ metadata' = [title |-> IF Given(info.title)
                                      THEN info.title
                                      ELSE Str(<<"Podcast Transcript">>)]
  /\ hpc' = "download"
  /\ UNCHANGED <<transcription_result, transcription_completed,
                 download_error, transcription_error, audio_file>>
  /\ UNCHANGED nonHandleVars

\* download_audio(url): the name it returns and the messages; "gone" is a
\* file that download_audio saw and that is removed before it returns.
download_audio(how) ==
  IF how = "raised"
  THEN [value |-> None, logs |-> <<"Download error">>]
  ELSE IF how = "missing"
  THEN [value |-> None, logs |-> <<"Error: Expected output file not found">>]
  ELSE [value |-> DownloadedFile, logs |-> <<>>]

\* Stage 2: the file is downloaded; when there is none the handler records
\* the download error and returns None.
HandleDownload ==
  /\ hpc = "download"
  /\ \E how \in {"saved", "gone", "missing", "raised"} :
       LET d == download_audio(how)
           log == AppendAll(Append(logs, "Downloading audio..."), d.logs)
       IN IF d.value # None /\ how = "saved"
          THEN /\ audio_file' = d.value
               /\ logs' = Append(log, "Downloaded audio")
               /\ hpc' = "transcribe"
               /\ UNCHANGED download_error
          ELSE /\ download_error' = DownloadFailedMessage
               /\ logs' = Append(log, DownloadFailedMessage)
               /\ hpc' = "returned"
               /\ UNCHANGED audio_file
  /\ UNCHANGED <<transcription_result, transcription_completed,
                 transcription_error, audio_duration, metadata>>
  /\ UNCHANGED nonHandleVars

\* Stages 3 and 4: transcribe_in_batches runs in a worker thread while the
\* handler only polls it; its result is stored and saved when it has a text,
\* and the transcription error is recorded otherwise.
HandleTranscribe ==
  /\ hpc = "transcribe"
  /\ \E sized \in BOOLEAN, big \in BOOLEAN, present \in BOOLEAN,
        outcome \in Outcomes2, writable \in BOOLEAN :
       LET t == transcribe_in_batches2(sized, big, present, outcome)
           result == t.value
           log == AppendAll(Append(logs, "Estimated transcription time"),
                            t.logs)
       IN IF HasText(result)
          THEN /\ transcription_result' = result
               /\ transcription_completed' = TRUE
               /\ logs' = AppendAll(
                            Append(log, "Transcription completed successfully."),
                            save_transcript2(result, writable))
               /\ UNCHANGED transcription_error
          ELSE /\ transcription_error' = TranscriptionFailedMessage
               /\ logs' = Append(log, TranscriptionFailedMessage)
               /\ UNCHANGED <<transcription_result, transcription_completed>>
  /\ hpc' = "returned"
  /\ UNCHANGED <<download_error, audio_file, audio_duration, metadata>>
  /\ UNCHANGED nonHandleVars

InitHandle ==
  /\ OrchIdle
  /\ SanIdle
  /\ NameIdle
  /\ RunsIdle
  /\ LogIdle
  /\ HandleIdle

NextHandle ==
  \/ HandleBegin
  \/ HandleMetadata
  \/ HandleDownload
  \/ HandleTranscribe

SpecHandle == InitHandle /\ [][NextHandle]_vars

\* Messages that tell that the transcription was started or a transcript
\* saved in the run the log belongs to.
TranscriptionMessages ==
  { "Estimated transcription time", "Uploaded file URL", "Transcription error",
    "Batch processing error", "Error: Input file does not exist",
    "Transcription completed successfully.", TranscriptionFailedMessage,
    "Transcript saved successfully", "Full transcript data saved",
    "Error saving transcript" }

Logged(m) == \E k \in DOMAIN logs : logs[k] = m

\* C22: whenever handle_transcribe has returned, after any sequence of runs,
\* transcription_completed is true exactly when transcription_result is a
\* result with a non-empty text; then both error fields are empty; at most
\* one of the two error fields is non-empty; and in a run whose download
\* failed the transcription is never started and no transcript is saved.
C22_SessionStateConsistent ==
  /\ hpc = "returned" =>
       /\ transcription_completed
            <=> /\ IsDict(transcription_result)
                /\ "text" \in DOMAIN transcription_result
                /\ transcription_result.text # <<>>
       /\ transcription_completed
            => download_error = "" /\ transcription_error = ""
       /\ ~(download_error # "" /\ transcription_error # "")
  /\ (download_error # "" \/ Logged(DownloadFailedMessage))
       => /\ hpc = "returned"
          /\ \A m \in TranscriptionMessages : ~Logged(m)

\* A run has completed after an earlier run: its own extract_info raised, and
\* the metadata are those the earlier run stored.
C22_Witness ==
  /\ hpc = "returned"
  /\ transcription_completed
  /\ transcription_result.text # <<>>
  /\ Logged("Metadata extraction error")
  /\ metadata # None

====
